---- MODULE Spec2Model ----
(***************************************************************************)
(* The Flow Engine backend (backend/main.py): the process-wide FlowState,  *)
(* the tri-layer flow detection, the session lifecycle and the blocker     *)
(* choices.  Time is a discrete clock of SecondsPerTick-second ticks.       *)
(*                                                                         *)
(* Threads of the program that appear here:                                *)
(*   - the event-loop thread, which runs the FastAPI handlers              *)
(*     (start_session, stop_session, record_browser_activity); none of the *)
(*     database coroutines they await ever suspends, so a handler is only  *)
(*     interleaved with the other threads, never with another handler;     *)
(*   - the window-monitor thread (on_window_change) and the input-monitor  *)
(*     listener thread (on_input_update);                                  *)
(*   - one new thread per scheduled _check_and_auto_start_flow (a monitor  *)
(*     thread has no event loop, so both get_event_loop() and              *)
(*     get_running_loop() raise and the fallback thread is spawned);       *)
(*   - the blocker's Tk thread (FlowBlocker._handle_resume/_handle_break); *)
(*   - the soft-reset thread (SoftReset._execute_reset).                   *)
(* The decay ticker (_track_resilience_decay) is a task of the event loop, *)
(* so it runs between handlers, once every 60 seconds from server start.   *)
(* No lock guards FlowState, so the test of state.is_running and the       *)
(* following assignment are separate steps of a start request.             *)
(***************************************************************************)
EXTENDS Integers, Sequences, FiniteSets, TLC

\* ------------------------------------------------------------------ bounds
MaxTime == 3
SecondsPerTick == 30
flow_threshold_minutes == 1
fatigue_threshold == 4
MaxChecks == 2
MaxSessions == 2
MaxInterventions == 2
MaxDecayTime == 7
MaxMessages == 3
MaxDegradation == 5
MaxOverlays == 3
MaxTkTime == 6
MaxPids == 3
MaxUsageCalls == 3

\* --------------------------------------------------------------- constants
XP_PER_MINUTE == 5
XP_RESUME_BONUS == 10
None == -1

Max(a, b) == IF a >= b THEN a ELSE b
Min(a, b) == IF a <= b THEN a ELSE b

\* (a - b).total_seconds() for two clock readings
total_seconds(a, b) == (a - b) * SecondsPerTick

\* asyncio.sleep(60) of the decay ticker, in clock ticks
sleep_ticks == (60 + SecondsPerTick - 1) \div SecondsPerTick

\* load_config: threshold in seconds from the configured minutes
flow_detection_threshold_seconds == flow_threshold_minutes * 60

\* ------------------------------------------------------------ input domains
\* Focused windows the window monitor can report, by what their title and
\* process name match.
Windows == {"vscode", "explorer", "instagram", "steam", "discord"}
\* any(k in title for k in productive_keywords)
is_productive(w) == w \in {"vscode", "discord"}
\* any(k in title for k in distracting_keywords)
is_distraction(w) == w \in {"instagram", "steam"}
\* process_name in blocked_apps
is_blocked(w) == w \in {"steam", "discord"}

\* URLs the extension can report
Urls == {"docs.python.org", "twitter.com"}
\* any(d in activity.url for d in distracting_urls)
is_distracting_url(u) == u \in {"twitter.com"}

\* Search queries the extension can report, already stripped and lowered
Queries == {"", "python asyncio", "netflix trailer", "celebrity gossip", "twitch streams"}
\* any(k in q for k in distracting_keywords), the default list of the handler
is_distracting_query(q) == q \in {"netflix trailer"}

\* What the request to the AI API comes to: a JSON answer with one of the
\* three classifications, an answer that is not JSON, or an exception
\* (connection error, timeout after 10 seconds, HTTP error status).
ApiOutcomes == {"productive", "distracting", "neutral", "malformed", "raises"}
\* AIClassifier._fallback_url_classification of the search URL built for q:
\* its distracting list has twitch, which the handler's list has not
fallback_url_classification(q) ==
  IF q \in {"netflix trailer", "twitch streams"} THEN "distracting" ELSE "neutral"
\* _parse_ai_response(_call_ai_api(prompt)).get("classification")
parse_ai_response(api) == IF api = "malformed" THEN "unknown" ELSE api
\* classifier.classify_url(...).get("classification").  A classifier built
\* without an API key goes to the fallback as one whose request raises.  The
\* cache is left out: an answer repeated from it is an answer the API may
\* give again.
classify_url(q, api) ==
  IF api = "raises" THEN fallback_url_classification(q) ELSE parse_ai_response(api)

\* What the input monitor reports for the last 60 seconds: steady typing,
\* reading with the scroll wheel, and a few slow actions.
Typing == [apm |-> 40, keyboard_events |-> 40, scroll_events |-> 0]
Reading == [apm |-> 40, keyboard_events |-> 5, scroll_events |-> 35]
Slow == [apm |-> 12, keyboard_events |-> 5, scroll_events |-> 0]
InputProfiles == {Typing, Reading, Slow}
\* An update whose 60-second window holds no event.  _update_apm stamps the
\* event with one reading of the wall clock and measures the window from a
\* later one, so a clock set forward in between empties the window.
Idle == [apm |-> 0, keyboard_events |-> 0, scroll_events |-> 0]

\* InputMonitor.get_activity_pattern over the same events
get_activity_pattern(p) ==
  IF p.apm = 0 THEN "idle"
  ELSE IF p.keyboard_events > 30 THEN "active"
  ELSE IF p.keyboard_events < 10 /\ p.scroll_events > 20 THEN "passive"
  ELSE IF p.apm > 10 THEN "active"
  ELSE "idle"

\* database.User: the fields of state.user that the handlers read.  A
\* cognitive profile is kept in tenths of a point; set is FALSE for None.
NoProfile == [set |-> FALSE, focus |-> 0, stamina |-> 0, resilience |-> 0, consistency |-> 0]
\* get_or_create_user without a client: User(id=1, name)
OfflineUser == [total_xp |-> 0, level |-> 1, cognitive_profile |-> NoProfile]
\* get_or_create_user with a client: the stored row of a user who has
\* completed four sessions, 5 XP short of level 2.
StoredUser ==
  [total_xp |-> 95, level |-> 1, sessions_count |-> 4,
   cognitive_profile |-> [set |-> TRUE, focus |-> 500, stamina |-> 200,
                          resilience |-> 300, consistency |-> 998]]

\* stop_session: the profile written on a level-up
level_up_profile(profile) ==
  [set |-> TRUE,
   focus |-> Min(1000, profile.focus + 10),
   stamina |-> Min(1000, profile.stamina + 10),
   resilience |-> Min(1000, profile.resilience + 10),
   consistency |-> Min(1000, profile.consistency + 5)]

VARIABLES
  now,                      \* datetime.now()
  is_running, start_time, current_session_id, local_session_id,
  current_focus_score, distraction_count, resilience_score, stamina_score,
  fatigue_score, baseline_apm, apm_degradation_count,
  current_apm, activity_pattern, active_streak_start,
  layer1_productive_start, layer2_last_distraction,
  active_window, last_browser_url, pending_close_tab,
  current_distracting_app, distracting_start_time, last_decay_check,
  blocker_active, blocker_app_name,     \* FlowBlocker.active / current_app_name
  soft_reset_active,                    \* SoftReset.active
  notifications_suppressed, dnd_enabled,
  supabase,                             \* database.supabase client connected
  local_rows, local_open,               \* local_db sessions table: rows, rows without end_time
  loop_pc,                              \* position of the event-loop thread
  checks_scheduled, checks_passed, checks_entered,  \* auto-start check threads by position
  response, stop_result,                \* what the step just taken returned to an API caller
  classifier_consulted,                 \* whether the step just taken called classifier.classify_url
  xp_added,                             \* what the step just taken added to users.total_xp
  db_failed,                            \* whether a database call of the step just taken raised
  decay_wake,                           \* instant at which the decay ticker's sleep ends
  query_in_flight, query_session,       \* the query being classified and the local row open at its receipt
  user,                                 \* state.user, loaded once by lifespan
  users_row,                            \* the user's row of the users table: its cognitive_profile
  bridge_pc, stdin, stdout,             \* bridge.py: position in main, bytes not yet read, bytes written
  message, bridge_response, messages_read, \* bridge.py: locals of main, and the messages read so far
  soft_reset_seconds,                   \* SoftReset.duration, from the configuration
  stop_xp,                              \* stop_session: xp_breakdown and duration of the request in progress, if any
  flow_blocker,                         \* FlowBlocker beyond active and current_app_name: its fields, overlay threads and timers
  watchdog,                             \* watchdog.py: the Watchdog's fields, its position in monitor, and the main.py process
  app_patterns                          \* local_db: the app_patterns table, one row per app_name

scoreVars == <<current_focus_score, distraction_count, resilience_score, stamina_score,
               fatigue_score, baseline_apm, apm_degradation_count>>
inputVars == <<current_apm, activity_pattern>>
layerVars == <<layer1_productive_start, layer2_last_distraction, active_streak_start>>
decayVars == <<current_distracting_app, distracting_start_time, last_decay_check>>
blockerVars == <<blocker_active, blocker_app_name>>
browserVars == <<last_browser_url, pending_close_tab>>
dbVars == <<supabase, local_rows, local_open>>
notifVars == <<notifications_suppressed, dnd_enabled>>
checkVars == <<checks_scheduled, checks_passed, checks_entered>>
sessionVars == <<is_running, start_time, current_session_id, local_session_id>>
apiVars == <<response, stop_result, classifier_consulted, xp_added, db_failed>>
queryVars == <<query_in_flight, query_session>>
userVars == <<user, users_row>>
bridgeVars == <<bridge_pc, stdin, stdout, message, bridge_response, messages_read>>
configVars == <<soft_reset_seconds>>
stopVars == <<stop_xp>>
overlayVars == <<flow_blocker>>
watchdogVars == <<watchdog>>
usageVars == <<app_patterns>>
moreVars == <<configVars, stopVars, overlayVars, watchdogVars, usageVars>>
extVars == <<queryVars, userVars, bridgeVars, moreVars>>

vars == <<now, sessionVars, scoreVars, inputVars, layerVars, decayVars, blockerVars,
          browserVars, dbVars, notifVars, checkVars, apiVars, active_window,
          soft_reset_active, loop_pc, decay_wake, extVars>>

NoResult == [duration |-> 0, xp_earned |-> 0, base |-> 0, resilience |-> 0,
             stamina |-> 0, focus |-> 0, penalty |-> 0]

\* A step that answers no API request.
no_reply ==
  /\ response' = "none" /\ stop_result' = NoResult
  /\ classifier_consulted' = FALSE /\ xp_added' = 0 /\ db_failed' = FALSE

\* No search query is being classified.
no_query == query_in_flight = "" /\ query_session = None

\* No stop request is between its first and its last statement.
no_stop_in_progress == stop_xp = <<>>

\* FlowBlocker.__init__: no overlay thread started, no timer pending.
\* tk_time is the clock that Tk's after() timers run by, in seconds; root and
\* buttons name the overlay that self.root and the button fields belong to,
\* 0 for None; choice is the choice last delivered through on_resume or
\* on_break.  An overlay is the window one call of _create_overlay builds:
\* the instant of the show that started it, the state of its two buttons,
\* whether its thread is in a button callback and whether root.quit() was
\* called on it.  overlays lists them in the order of their show, timers the
\* chain of after() calls each of them started.
NoTimer == [on |-> 0, due |-> 0]
blocker_created ==
  flow_blocker = [tk_time |-> 0, countdown_value |-> 3, root |-> 0, buttons |-> 0,
                  overlays |-> <<>>, timers |-> <<>>, choice |-> "none"]

\* watchdog.py is a program of its own: not started yet.
watchdog_not_started == watchdog = <<>>

\* local_db: the app_patterns table as _init_db creates it, empty: a
\* function from the app names that have a row to their row.
Apps == {"vscode.exe", "instagram.exe"}
app_patterns_created == app_patterns = [app \in {} |-> 0]

\* SELECT * FROM app_patterns WHERE app_name = ?, with the counters of a
\* missing row read as 0.
app_pattern(app_name) ==
  IF app_name \in DOMAIN app_patterns THEN app_patterns[app_name]
  ELSE [total_time_seconds |-> 0, flow_breaks |-> 0,
        productive_sessions |-> 0, distraction_sessions |-> 0]

\* lifespan: state.user = get_or_create_user("Victus"), and the users row it
\* was read from (no row without a client).
get_or_create_user ==
  /\ user = IF supabase
              THEN [total_xp |-> StoredUser.total_xp, level |-> StoredUser.level,
                    cognitive_profile |-> StoredUser.cognitive_profile]
              ELSE OfflineUser
  /\ users_row = IF supabase
                   THEN [cognitive_profile |-> StoredUser.cognitive_profile]
                   ELSE [cognitive_profile |-> NoProfile]

\* bridge.py: a message as main holds it; n is its position among the
\* messages the extension posted.
NoMessage == [type |-> "None", n |-> 0]
\* bridge.main before its first read_message, nothing posted yet
bridge_started ==
  /\ bridge_pc = "read_message"
  /\ stdin = <<>>
  /\ stdout = <<>>
  /\ message = NoMessage
  /\ bridge_response = [status |-> "None", re |-> 0]
  /\ messages_read = <<>>

\* The soft reset as main.py builds it when the configuration names no
\* soft_reset_seconds.
default_soft_reset == soft_reset_seconds = 45

\* FlowState.__init__ and the module-level initialisation, apart from the
\* configuration values read there.
FlowState_init ==
  /\ now = 0
  /\ is_running = FALSE
  /\ start_time = None
  /\ current_session_id = None
  /\ local_session_id = None
  /\ current_focus_score = 100
  /\ distraction_count = 0
  /\ resilience_score = 0
  /\ stamina_score = 0
  /\ fatigue_score = 0
  /\ baseline_apm = 0
  /\ apm_degradation_count = 0
  /\ current_apm = 0
  /\ activity_pattern = "idle"
  /\ active_streak_start = None
  /\ layer1_productive_start = None
  /\ layer2_last_distraction = None
  /\ active_window = "Unknown"
  /\ last_browser_url = ""
  /\ pending_close_tab = FALSE
  /\ current_distracting_app = "None"
  /\ distracting_start_time = None
  /\ last_decay_check = None
  /\ blocker_active = FALSE
  /\ blocker_app_name = "None"
  /\ soft_reset_active = FALSE
  /\ notifications_suppressed = FALSE
  /\ dnd_enabled = FALSE
  /\ supabase \in BOOLEAN
  /\ local_rows = 0
  /\ local_open = {}
  /\ loop_pc = "idle"
  /\ checks_scheduled = 0
  /\ checks_passed = 0
  /\ checks_entered = 0
  /\ response = "none"
  /\ stop_result = NoResult
  /\ classifier_consulted = FALSE
  /\ xp_added = 0
  /\ db_failed = FALSE
  /\ decay_wake = sleep_ticks
  /\ no_query
  /\ get_or_create_user
  /\ bridge_started
  /\ no_stop_in_progress
  /\ blocker_created
  /\ watchdog_not_started
  /\ app_patterns_created

\* The server as it starts with the default configuration.
Init ==
  /\ FlowState_init
  /\ default_soft_reset

\* An event loop that takes the next request while a handler is still
\* waiting for the classifier.
event_loop_never_blocked == TRUE

\* The event loop is between two handlers: a coroutine of main.py never
\* suspends before it returns, so the loop runs them one at a time.
event_loop_idle == loop_pc = "idle"

\* The wall clock advances.
Tick ==
  /\ now < MaxTime
  /\ now' = now + 1
  /\ no_reply
  /\ UNCHANGED <<extVars, sessionVars, scoreVars, inputVars, layerVars, decayVars, blockerVars,
                 browserVars, dbVars, notifVars, checkVars, active_window,
                 soft_reset_active, loop_pc, decay_wake>>

\* ------------------------------------------------------------ interventions
\* trigger_intervention followed by FlowBlocker.show: the count always goes
\* up; show() returns at once when an overlay is already active.
trigger_intervention(display_name) ==
  /\ distraction_count < MaxInterventions
  /\ distraction_count' = distraction_count + 1
  /\ blocker_active' = TRUE
  /\ blocker_app_name' = IF blocker_active THEN blocker_app_name ELSE display_name

\* handle_resume with the decay tracking left as it was.
handle_resume_keeps_record ==
  /\ blocker_active
  /\ resilience_score' = resilience_score + 5
  /\ stamina_score' = stamina_score + 10
  /\ current_focus_score' = Min(100, current_focus_score + 5)
  /\ pending_close_tab' = IF last_browser_url # "" THEN TRUE ELSE pending_close_tab
  /\ blocker_active' = FALSE
  /\ no_reply
  /\ UNCHANGED <<extVars, now, decay_wake, sessionVars, distraction_count, fatigue_score,
                 baseline_apm, apm_degradation_count, inputVars, layerVars, decayVars,
                 blocker_app_name, last_browser_url, dbVars, notifVars, checkVars,
                 active_window, soft_reset_active, loop_pc>>

\* handle_resume, reached from FlowBlocker._handle_resume on the Tk thread.
\* asyncio.create_task has no running loop on that thread and raises; the
\* exception is caught by _handle_resume, which then hides the overlay.
handle_resume ==
  /\ blocker_active
  /\ resilience_score' = resilience_score + 5
  /\ stamina_score' = stamina_score + 10
  /\ current_focus_score' = Min(100, current_focus_score + 5)
  /\ current_distracting_app' = "None"
  /\ distracting_start_time' = None
  /\ pending_close_tab' = IF last_browser_url # "" THEN TRUE ELSE pending_close_tab
  /\ blocker_active' = FALSE
  /\ no_reply
  /\ UNCHANGED <<extVars, now, decay_wake, sessionVars, distraction_count, fatigue_score, baseline_apm,
                 apm_degradation_count, inputVars, layerVars, last_decay_check,
                 blocker_app_name, last_browser_url, dbVars, notifVars, checkVars,
                 active_window, soft_reset_active, loop_pc>>

\* handle_break with the last-check timestamp left as it was.
handle_break_no_last_check ==
  /\ blocker_active
  /\ resilience_score' = Max(0, resilience_score - 10)
  /\ current_focus_score' = Max(0, current_focus_score - 15)
  /\ current_distracting_app' = active_window
  /\ distracting_start_time' = now
  /\ blocker_active' = FALSE
  /\ no_reply
  /\ UNCHANGED <<extVars, now, decay_wake, sessionVars, distraction_count, stamina_score,
                 fatigue_score, baseline_apm, apm_degradation_count, inputVars, layerVars,
                 last_decay_check, blocker_app_name, browserVars, dbVars, notifVars,
                 checkVars, active_window, soft_reset_active, loop_pc>>

\* handle_break, reached from FlowBlocker._handle_break through the
\* argument-less on_break lambda.
handle_break ==
  /\ blocker_active
  /\ resilience_score' = Max(0, resilience_score - 10)
  /\ current_focus_score' = Max(0, current_focus_score - 15)
  /\ current_distracting_app' = active_window
  /\ distracting_start_time' = now
  /\ last_decay_check' = now
  /\ blocker_active' = FALSE
  /\ no_reply
  /\ UNCHANGED <<extVars, now, decay_wake, sessionVars, distraction_count, stamina_score, fatigue_score,
                 baseline_apm, apm_degradation_count, inputVars, layerVars,
                 blocker_app_name, browserVars, dbVars, notifVars, checkVars,
                 active_window, soft_reset_active, loop_pc>>

\* ------------------------------------------------------------ window monitor
\* on_window_change with the record paused, its timestamps kept.
on_window_change_pauses_record(w) ==
  /\ active_window' = w
  /\ IF ~is_running
       THEN /\ checks_scheduled + checks_passed + checks_entered < MaxChecks
            /\ layer1_productive_start' =
                 IF is_productive(w)
                   THEN (IF layer1_productive_start = None THEN now
                                                           ELSE layer1_productive_start)
                   ELSE None
            /\ checks_scheduled' = checks_scheduled + 1
            /\ UNCHANGED <<distraction_count, blockerVars, decayVars>>
       ELSE /\ UNCHANGED <<layer1_productive_start, checks_scheduled>>
            /\ IF is_blocked(w)
                 THEN /\ trigger_intervention(w)
                      /\ UNCHANGED decayVars
                 ELSE /\ IF is_productive(w) /\ current_distracting_app # "None"
                           THEN /\ current_distracting_app' = "None"
                                /\ UNCHANGED <<distracting_start_time, last_decay_check>>
                           ELSE UNCHANGED decayVars
                      /\ IF is_distraction(w)
                           THEN trigger_intervention(w)
                           ELSE UNCHANGED <<distraction_count, blockerVars>>
  /\ no_reply
  /\ UNCHANGED <<extVars, now, decay_wake, sessionVars, current_focus_score, resilience_score, stamina_score,
                 fatigue_score, baseline_apm, apm_degradation_count, inputVars,
                 layer2_last_distraction, active_streak_start, browserVars, dbVars,
                 notifVars, checks_passed, checks_entered, soft_reset_active, loop_pc>>

\* on_window_change, called by the window-monitor thread.
on_window_change(w) ==
  /\ active_window' = w
  /\ IF ~is_running
       THEN /\ checks_scheduled + checks_passed + checks_entered < MaxChecks
            /\ layer1_productive_start' =
                 IF is_productive(w)
                   THEN (IF layer1_productive_start = None THEN now
                                                           ELSE layer1_productive_start)
                   ELSE None
            /\ checks_scheduled' = checks_scheduled + 1
            /\ UNCHANGED <<distraction_count, blockerVars, decayVars>>
       ELSE /\ UNCHANGED <<layer1_productive_start, checks_scheduled>>
            /\ IF is_blocked(w)
                 THEN /\ trigger_intervention(w)
                      /\ UNCHANGED decayVars
                 ELSE /\ IF is_productive(w) /\ current_distracting_app # "None"
                           THEN /\ current_distracting_app' = "None"
                                /\ distracting_start_time' = None
                                /\ last_decay_check' = None
                           ELSE UNCHANGED decayVars
                      /\ IF is_distraction(w)
                           THEN trigger_intervention(w)
                           ELSE UNCHANGED <<distraction_count, blockerVars>>
  /\ no_reply
  /\ UNCHANGED <<extVars, now, decay_wake, sessionVars, current_focus_score, resilience_score, stamina_score,
                 fatigue_score, baseline_apm, apm_degradation_count, inputVars,
                 layer2_last_distraction, active_streak_start, browserVars, dbVars,
                 notifVars, checks_passed, checks_entered, soft_reset_active, loop_pc>>

\* ------------------------------------------------------------- input monitor
\* detect_cognitive_fatigue: the degradation counter after an update that
\* reports apm.
degradation_after(apm) ==
  IF baseline_apm > 0
    THEN (IF 2 * apm < baseline_apm /\ apm > 0
            THEN apm_degradation_count + 1
            ELSE Max(0, apm_degradation_count - 1))
    ELSE apm_degradation_count

\* detect_cognitive_fatigue: the fatigue score after the adjustments for the
\* activity pattern and for sustained degradation, before the threshold is
\* tested.
fatigue_after(apm, pattern, activity) ==
  LET f1 == IF activity = "passive" /\ pattern = "passive"
              THEN Min(100, fatigue_score + 2)
              ELSE IF activity = "active" THEN Max(0, fatigue_score - 5)
              ELSE fatigue_score
  IN IF degradation_after(apm) > 3 THEN Min(100, f1 + 10) ELSE f1

\* detect_cognitive_fatigue that triggers the soft reset and keeps the score.
detect_cognitive_fatigue_keeps_score(apm, pattern, activity) ==
  IF ~is_running
    THEN UNCHANGED <<fatigue_score, baseline_apm, apm_degradation_count, soft_reset_active>>
  ELSE IF baseline_apm = 0 /\ apm > 10
    THEN /\ baseline_apm' = apm
         /\ UNCHANGED <<fatigue_score, apm_degradation_count, soft_reset_active>>
  ELSE
    /\ apm_degradation_count' = degradation_after(apm)
    /\ UNCHANGED baseline_apm
    /\ fatigue_score' = fatigue_after(apm, pattern, activity)
    /\ IF fatigue_after(apm, pattern, activity) > fatigue_threshold
         THEN soft_reset_active' = TRUE
         ELSE UNCHANGED soft_reset_active

\* detect_cognitive_fatigue, with current_apm and activity_pattern already
\* updated to apm and pattern, and activity the monitor's own pattern.
\* SoftReset.trigger, called only while not active, sets active.
detect_cognitive_fatigue(apm, pattern, activity) ==
  IF ~is_running
    THEN UNCHANGED <<fatigue_score, baseline_apm, apm_degradation_count, soft_reset_active>>
  ELSE IF baseline_apm = 0 /\ apm > 10
    THEN /\ baseline_apm' = apm
         /\ UNCHANGED <<fatigue_score, apm_degradation_count, soft_reset_active>>
  ELSE
    /\ apm_degradation_count' = degradation_after(apm)
    /\ UNCHANGED baseline_apm
    /\ IF fatigue_after(apm, pattern, activity) > fatigue_threshold
         THEN /\ soft_reset_active' = TRUE
              /\ fatigue_score' = 0
         ELSE /\ fatigue_score' = fatigue_after(apm, pattern, activity)
              /\ UNCHANGED soft_reset_active

\* on_input_update, called by the input-monitor listener thread.
on_input_update(data) ==
  LET pattern == IF data.keyboard_events > 30 THEN "active" ELSE "passive" IN
  /\ current_apm' = data.apm
  /\ activity_pattern' = pattern
  /\ active_streak_start' =
       IF pattern = "active"
         THEN (IF active_streak_start = None THEN now ELSE active_streak_start)
         ELSE None
  /\ IF ~is_running
       THEN /\ checks_scheduled + checks_passed + checks_entered < MaxChecks
            /\ checks_scheduled' = checks_scheduled + 1
       ELSE UNCHANGED checks_scheduled
  /\ detect_cognitive_fatigue(data.apm, pattern, get_activity_pattern(data))
  /\ no_reply
  /\ UNCHANGED <<extVars, now, decay_wake, sessionVars, current_focus_score, distraction_count,
                 resilience_score, stamina_score, layer1_productive_start,
                 layer2_last_distraction, decayVars, blockerVars, browserVars, dbVars,
                 notifVars, checks_passed, checks_entered, active_window,
                 loop_pc>>

\* SoftReset._execute_reset, run by the thread that trigger started: the
\* blur, the fades and time.sleep(self.duration - 15), then active = False.
\* time.sleep raises ValueError for a negative length, and the thread ends
\* there with active still set.
soft_reset_complete ==
  /\ soft_reset_active
  /\ IF soft_reset_seconds - 15 < 0
       THEN UNCHANGED soft_reset_active
       ELSE soft_reset_active' = FALSE
  /\ no_reply
  /\ UNCHANGED <<extVars, now, decay_wake, sessionVars, scoreVars, inputVars, layerVars, decayVars,
                 blockerVars, browserVars, dbVars, notifVars, checkVars, active_window, loop_pc>>

\* ------------------------------------------------------- tri-layer detection
\* The three layer predicates of _check_and_auto_start_flow at clock reading t.
layer1_active(t) ==
  /\ layer1_productive_start # None
  /\ total_seconds(t, layer1_productive_start) >= flow_detection_threshold_seconds

layer2_active(t) ==
  \/ layer2_last_distraction = None
  \/ total_seconds(t, layer2_last_distraction) >= flow_detection_threshold_seconds

\* Layer 3 with the age test left out.
layer3_active_no_threshold(t) == active_streak_start # None

layer3_active(t) ==
  /\ active_streak_start # None
  /\ total_seconds(t, active_streak_start) >= flow_detection_threshold_seconds

\* _check_and_auto_start_flow up to its call of _auto_start_flow, run by a
\* scheduled check thread.
check_and_auto_start_flow ==
  /\ checks_scheduled > 0
  /\ checks_scheduled' = checks_scheduled - 1
  /\ checks_passed' =
       IF ~is_running /\ layer1_active(now) /\ layer2_active(now) /\ layer3_active(now)
         THEN checks_passed + 1
         ELSE checks_passed
  /\ no_reply
  /\ UNCHANGED <<extVars, now, decay_wake, sessionVars, scoreVars, inputVars, layerVars, decayVars,
                 blockerVars, browserVars, dbVars, notifVars, checks_entered, active_window, soft_reset_active, loop_pc>>

\* _auto_start_flow: the test of state.is_running.
auto_start_flow_guard ==
  /\ checks_passed > 0
  /\ checks_passed' = checks_passed - 1
  /\ checks_entered' = IF is_running THEN checks_entered ELSE checks_entered + 1
  /\ no_reply
  /\ UNCHANGED <<extVars, now, decay_wake, sessionVars, scoreVars, inputVars, layerVars, decayVars,
                 blockerVars, browserVars, dbVars, notifVars, checks_scheduled, active_window, soft_reset_active, loop_pc>>

\* database.create_session as main.py calls it: the user id is passed where a
\* Session is expected, so with a connected client the insert raises and None
\* is returned; without a client the offline id 1 is returned.
create_session == IF supabase THEN None ELSE 1

\* The resets shared by both start paths.
reset_session_scores ==
  /\ is_running' = TRUE
  /\ start_time' = now
  /\ distraction_count' = 0
  /\ resilience_score' = 0
  /\ stamina_score' = 0
  /\ fatigue_score' = 0
  /\ baseline_apm' = 0

\* local_db.create_session: a new row without end_time.
local_create_session ==
  /\ local_rows < MaxSessions
  /\ local_rows' = local_rows + 1
  /\ local_open' = local_open \cup {local_rows + 1}
  /\ local_session_id' = local_rows + 1

\* _auto_start_flow after the test: the assignments of a successful auto-start.
auto_start_flow_set ==
  /\ checks_entered > 0
  /\ checks_entered' = checks_entered - 1
  /\ reset_session_scores
  /\ layer1_productive_start' = None
  /\ layer2_last_distraction' = None
  /\ active_streak_start' = None
  /\ current_session_id' = create_session
  /\ local_create_session
  /\ dnd_enabled' = TRUE
  /\ response' = "none" /\ stop_result' = NoResult
  /\ classifier_consulted' = FALSE /\ xp_added' = 0
  /\ db_failed' = (create_session = None)
  /\ UNCHANGED <<extVars, now, decay_wake, current_focus_score, apm_degradation_count, inputVars, decayVars,
                 blockerVars, browserVars, supabase, notifications_suppressed,
                 checks_scheduled, checks_passed, active_window,
                 soft_reset_active, loop_pc>>

\* ------------------------------------------------------------- API handlers
\* start_session with the counters cleared ahead of the test of is_running.
start_session_check_after_reset ==
  /\ event_loop_idle
  /\ distraction_count' = 0
  /\ IF is_running
       THEN /\ response' = "already_running"
            /\ UNCHANGED loop_pc
       ELSE /\ loop_pc' = "start_session"
            /\ response' = "none"
  /\ UNCHANGED <<extVars, now, decay_wake, sessionVars, current_focus_score, resilience_score, stamina_score,
                 fatigue_score, baseline_apm, apm_degradation_count, inputVars, layerVars,
                 decayVars, blockerVars, browserVars, dbVars, notifVars, checkVars,
                 active_window, soft_reset_active>>
  /\ stop_result' = NoResult
  /\ xp_added' = 0
  /\ db_failed' = FALSE
  /\ classifier_consulted' = FALSE

\* start_session: the test of state.is_running.
start_session_check ==
  /\ event_loop_idle
  /\ IF is_running
       THEN /\ response' = "already_running"
            /\ UNCHANGED loop_pc
       ELSE /\ loop_pc' = "start_session"
            /\ response' = "none"
  /\ UNCHANGED <<extVars, now, decay_wake, sessionVars, scoreVars, inputVars, layerVars, decayVars,
                 blockerVars, browserVars, dbVars, notifVars, checkVars, active_window,
                 soft_reset_active>>
  /\ stop_result' = NoResult
  /\ xp_added' = 0
  /\ db_failed' = FALSE
  /\ classifier_consulted' = FALSE

\* start_session after the test: the assignments of a successful manual start.
start_session_set ==
  /\ loop_pc = "start_session"
  /\ loop_pc' = "idle"
  /\ reset_session_scores
  /\ current_session_id' = create_session
  /\ local_create_session
  /\ notifications_suppressed' = TRUE
  /\ response' = "started"
  /\ UNCHANGED <<extVars, now, decay_wake, current_focus_score, apm_degradation_count, inputVars, layerVars,
                 decayVars, blockerVars, browserVars, supabase, dnd_enabled,
                 checkVars,
                 active_window, soft_reset_active>>
  /\ stop_result' = NoResult
  /\ xp_added' = 0
  /\ db_failed' = (create_session = None)
  /\ classifier_consulted' = FALSE

\* The XP breakdown with a penalty of 5 per distraction.
xp_breakdown_penalised(duration, resilience, stamina, focus_score, distractions) ==
  LET base_xp == Max(0, duration \div 60) * XP_PER_MINUTE
      focus_bonus == Max(0, focus_score) \div 10
      distraction_penalty == distractions * 5
  IN [duration |-> duration,
      xp_earned |-> base_xp + resilience + stamina + focus_bonus - distraction_penalty,
      base |-> base_xp, resilience |-> resilience, stamina |-> stamina,
      focus |-> focus_bonus, penalty |-> distraction_penalty]

\* The XP breakdown of stop_session for a duration in seconds and the scores
\* of the session.
xp_breakdown(duration, resilience, stamina, focus_score, distractions) ==
  LET minutes == Max(0, duration \div 60)
      base_xp == minutes * XP_PER_MINUTE
      resilience_bonus == resilience
      stamina_bonus == stamina
      focus_bonus == Max(0, focus_score) \div 10
      distraction_penalty == distractions * 0
  IN [duration |-> duration,
      xp_earned |-> base_xp + resilience_bonus + stamina_bonus + focus_bonus
                    - distraction_penalty,
      base |-> base_xp, resilience |-> resilience_bonus, stamina |-> stamina_bonus,
      focus |-> focus_bonus, penalty |-> distraction_penalty]

\* database.update_user_xp: without a client nothing is stored, and a call
\* that raises is logged and stores nothing.
update_user_xp(xp_to_add, db_ok) ==
  xp_added' = IF supabase /\ db_ok THEN xp_to_add ELSE 0

\* database.get_user_status(...)["sessions_count"], read after
\* increment_sessions_count: 0 without a client and when the read raises.
\* The stored user has four sessions and the count only grows, so all that
\* the handler tests of it, being 3 or above 3, is known without keeping it.
get_user_status(db_ok) ==
  IF supabase /\ db_ok THEN StoredUser.sessions_count + 1 ELSE 0

\* stop_session: the cognitive profile the users row holds afterwards.  The
\* level test reads state.user, which no handler refreshes.  The branch for
\* sessions_count == 3 is not reached: the stored user has four sessions.
stored_profile_after_stop(db_ok) ==
  LET old_level == user.level
      new_level == (user.total_xp \div 100) + 1
  IN IF /\ get_user_status(db_ok) > 3
        /\ new_level > old_level
        /\ user.cognitive_profile.set
       THEN level_up_profile(user.cognitive_profile)
       ELSE users_row.cognitive_profile

\* get_status: the xp field of the snapshot
get_status_xp == user.total_xp

\* stop_session with the exception of a database call left to propagate: the
\* request ends in an error before anything else is done.
stop_session_raising ==
  /\ event_loop_idle
  /\ classifier_consulted' = FALSE
  /\ IF ~is_running
       THEN /\ response' = "not_running"
            /\ stop_result' = NoResult
            /\ xp_added' = 0
            /\ db_failed' = FALSE
            /\ UNCHANGED <<is_running, local_open, notifications_suppressed, users_row>>
       ELSE \E db_ok \in (IF supabase THEN BOOLEAN ELSE {TRUE}) :
            /\ db_failed' = ~db_ok
            /\ stop_result' = xp_breakdown(total_seconds(now, start_time), resilience_score,
                                         stamina_score, current_focus_score,
                                         distraction_count)
            /\ update_user_xp(stop_result'.xp_earned, db_ok)
            /\ users_row' = [cognitive_profile |-> stored_profile_after_stop(db_ok)]
            /\ local_open' = IF db_ok THEN local_open \ {local_session_id} ELSE local_open
            /\ notifications_suppressed' = IF db_ok THEN FALSE ELSE notifications_suppressed
            /\ is_running' = ~db_ok
            /\ response' = IF db_ok THEN "stopped" ELSE "error"
  /\ UNCHANGED <<now, decay_wake, start_time, current_session_id, local_session_id, scoreVars,
                 inputVars, layerVars, decayVars, blockerVars, browserVars, supabase,
                 local_rows, dnd_enabled, checkVars, active_window, soft_reset_active,
                 loop_pc, queryVars, user, bridgeVars, moreVars>>

\* stop_session.  db_ok is whether the remote database answers during the
\* request; no call is made to it without a client.
stop_session ==
  /\ event_loop_idle
  /\ classifier_consulted' = FALSE
  /\ IF ~is_running
       THEN /\ response' = "not_running"
            /\ stop_result' = NoResult
            /\ xp_added' = 0
            /\ db_failed' = FALSE
            /\ UNCHANGED <<is_running, local_open, notifications_suppressed, users_row>>
       ELSE \E db_ok \in (IF supabase THEN BOOLEAN ELSE {TRUE}) :
            /\ db_failed' = ~db_ok
            /\ stop_result' = xp_breakdown(total_seconds(now, start_time), resilience_score,
                                         stamina_score, current_focus_score,
                                         distraction_count)
            /\ update_user_xp(stop_result'.xp_earned, db_ok)
            /\ users_row' = [cognitive_profile |-> stored_profile_after_stop(db_ok)]
            /\ local_open' = local_open \ {local_session_id}
            /\ notifications_suppressed' = FALSE
            /\ is_running' = FALSE
            /\ response' = "stopped"
  /\ UNCHANGED <<now, decay_wake, start_time, current_session_id, local_session_id, scoreVars,
                 inputVars, layerVars, decayVars, blockerVars, browserVars, supabase,
                 local_rows, dnd_enabled, checkVars, active_window, soft_reset_active,
                 loop_pc, queryVars, user, bridgeVars, moreVars>>

\* stop_session up to the XP breakdown: the test of is_running, end_time,
\* duration and the breakdown, computed from the scores as they are now.  The
\* database calls that follow are blocking calls made inside the coroutine:
\* the event loop runs no other handler until the request returns, while the
\* threads of the process run on.
stop_session_begin ==
  /\ event_loop_idle
  /\ classifier_consulted' = FALSE
  /\ stop_result' = NoResult
  /\ xp_added' = 0
  /\ db_failed' = FALSE
  /\ IF ~is_running
       THEN /\ response' = "not_running"
            /\ UNCHANGED <<loop_pc, stop_xp>>
       ELSE /\ response' = "none"
            /\ stop_xp' = <<xp_breakdown(total_seconds(now, start_time), resilience_score,
                                        stamina_score, current_focus_score,
                                        distraction_count)>>
            /\ loop_pc' = "stop_session"
  /\ UNCHANGED <<now, decay_wake, sessionVars, scoreVars, inputVars, layerVars, decayVars,
                 blockerVars, browserVars, dbVars, notifVars, checkVars, active_window,
                 soft_reset_active, queryVars, userVars, bridgeVars, configVars,
                 overlayVars, watchdogVars, usageVars>>

\* stop_session: the row that local_db.update_session is given for the
\* session, its scores read from state when the call is made.
local_update_session ==
  [duration_seconds |-> stop_xp[1].duration,
   focus_score |-> current_focus_score,
   distraction_count |-> distraction_count,
   resilience_score |-> resilience_score,
   stamina_score |-> stamina_score,
   xp_total |-> stop_xp[1].xp_earned]

\* stop_session from update_user_xp to its return: the XP computed at the
\* start is added and answered, the local row is closed, notifications are
\* restored and is_running is cleared.
stop_session_finish ==
  /\ loop_pc = "stop_session"
  /\ classifier_consulted' = FALSE
  /\ \E db_ok \in (IF supabase THEN BOOLEAN ELSE {TRUE}) :
       /\ db_failed' = ~db_ok
       /\ update_user_xp(stop_xp[1].xp_earned, db_ok)
       /\ users_row' = [cognitive_profile |-> stored_profile_after_stop(db_ok)]
  /\ stop_result' = stop_xp[1]
  /\ local_open' = local_open \ {local_session_id}
  /\ notifications_suppressed' = FALSE
  /\ is_running' = FALSE
  /\ response' = "stopped"
  /\ stop_xp' = <<>>
  /\ loop_pc' = "idle"
  /\ UNCHANGED <<now, decay_wake, start_time, current_session_id, local_session_id, scoreVars,
                 inputVars, layerVars, decayVars, blockerVars, browserVars, supabase,
                 local_rows, dnd_enabled, checkVars, active_window, soft_reset_active,
                 queryVars, user, bridgeVars, configVars, overlayVars, watchdogVars,
                 usageVars>>

\* record_browser_activity.
record_browser_activity(url) ==
  /\ event_loop_idle
  /\ IF ~is_running
       THEN /\ response' = "ignored"
            /\ UNCHANGED <<browserVars, distraction_count, blockerVars>>
       ELSE /\ last_browser_url' = url
            /\ IF pending_close_tab
                 THEN /\ pending_close_tab' = FALSE
                      /\ response' = "wait_for_break"
                      /\ UNCHANGED <<distraction_count, blockerVars>>
                 ELSE /\ UNCHANGED pending_close_tab
                      /\ IF is_distracting_url(url)
                           THEN /\ trigger_intervention(url)
                                /\ response' = "intervention_triggered"
                           ELSE /\ response' = "recorded"
                                /\ UNCHANGED <<distraction_count, blockerVars>>
  /\ UNCHANGED <<extVars, now, decay_wake, sessionVars, current_focus_score, resilience_score, stamina_score,
                 fatigue_score, baseline_apm, apm_degradation_count, inputVars, layerVars,
                 decayVars, dbVars, notifVars, checkVars, active_window,
                 soft_reset_active, loop_pc>>
  /\ stop_result' = NoResult
  /\ xp_added' = 0
  /\ db_failed' = FALSE
  /\ classifier_consulted' = FALSE

\* record_search_query with the classifier asked ahead of the keyword check.
record_search_query_classifier_first(q) ==
  /\ event_loop_idle
  /\ IF ~is_running \/ q = ""
       THEN /\ response' = "ignored"
            /\ classifier_consulted' = FALSE
            /\ UNCHANGED <<loop_pc, queryVars>>
       ELSE /\ classifier_consulted' = TRUE
            /\ loop_pc' = "classify_url"
            /\ query_in_flight' = q
            /\ query_session' = local_session_id
            /\ response' = "none"
  /\ stop_result' = NoResult
  /\ xp_added' = 0
  /\ db_failed' = FALSE
  /\ UNCHANGED <<userVars, bridgeVars, moreVars, now, decay_wake, sessionVars, scoreVars,
                 inputVars, layerVars, decayVars, blockerVars, browserVars, dbVars,
                 notifVars, checkVars, active_window, soft_reset_active>>

\* record_search_query up to its call of classifier.classify_url, for a
\* query already stripped and lowered.  The call is a blocking HTTP request
\* made inside the coroutine, so the event loop runs nothing else until it
\* returns, while the other threads go on.
record_search_query(q) ==
  /\ event_loop_idle
  /\ IF ~is_running \/ q = ""
       THEN /\ response' = "ignored"
            /\ classifier_consulted' = FALSE
            /\ UNCHANGED <<distraction_count, blockerVars, loop_pc, queryVars>>
       ELSE IF is_distracting_query(q)
         THEN /\ trigger_intervention(q)
              /\ response' = "intervention_triggered"
              /\ classifier_consulted' = FALSE
              /\ UNCHANGED <<loop_pc, queryVars>>
         ELSE /\ classifier_consulted' = TRUE
              /\ loop_pc' = "classify_url"
              /\ query_in_flight' = q
              /\ query_session' = local_session_id
              /\ response' = "none"
              /\ UNCHANGED <<distraction_count, blockerVars>>
  /\ stop_result' = NoResult
  /\ xp_added' = 0
  /\ db_failed' = FALSE
  /\ UNCHANGED <<userVars, bridgeVars, moreVars, now, decay_wake, sessionVars, current_focus_score,
                 resilience_score, stamina_score, fatigue_score, baseline_apm,
                 apm_degradation_count, inputVars, layerVars, decayVars, browserVars,
                 dbVars, notifVars, checkVars, active_window, soft_reset_active>>

\* record_search_query from the return of classifier.classify_url on: an
\* exception that escapes the classifier is logged and the query recorded,
\* as is every classification but distracting.
record_search_query_classified(api) ==
  /\ loop_pc = "classify_url"
  /\ loop_pc' = "idle"
  /\ query_in_flight' = ""
  /\ query_session' = None
  /\ IF classify_url(query_in_flight, api) = "distracting"
       THEN /\ trigger_intervention(query_in_flight)
            /\ response' = "intervention_triggered"
       ELSE /\ response' = "recorded"
            /\ UNCHANGED <<distraction_count, blockerVars>>
  /\ stop_result' = NoResult
  /\ xp_added' = 0
  /\ db_failed' = FALSE
  /\ classifier_consulted' = FALSE
  /\ UNCHANGED <<userVars, bridgeVars, moreVars, now, decay_wake, sessionVars, current_focus_score,
                 resilience_score, stamina_score, fatigue_score, baseline_apm,
                 apm_degradation_count, inputVars, layerVars, decayVars, browserVars,
                 dbVars, notifVars, checkVars, active_window, soft_reset_active>>

\* apply_forceful_termination_penalty without the floor at 0.
apply_forceful_termination_penalty_unclamped(penalty_amount) ==
  /\ event_loop_idle
  /\ resilience_score' = resilience_score - penalty_amount
  /\ response' = "penalty_applied"
  /\ stop_result' = NoResult
  /\ xp_added' = 0
  /\ db_failed' = FALSE
  /\ classifier_consulted' = FALSE
  /\ UNCHANGED <<extVars, now, decay_wake, sessionVars, current_focus_score, distraction_count,
                 stamina_score, fatigue_score, baseline_apm, apm_degradation_count,
                 inputVars, layerVars, decayVars, blockerVars, browserVars, dbVars,
                 notifVars, checkVars, active_window, soft_reset_active, loop_pc>>

\* apply_forceful_termination_penalty; the user_stats upsert touches nothing
\* that is kept here.
apply_forceful_termination_penalty(penalty_amount) ==
  /\ event_loop_idle
  /\ resilience_score' = Max(0, resilience_score - penalty_amount)
  /\ response' = "penalty_applied"
  /\ stop_result' = NoResult
  /\ xp_added' = 0
  /\ db_failed' = FALSE
  /\ classifier_consulted' = FALSE
  /\ UNCHANGED <<extVars, now, decay_wake, sessionVars, current_focus_score, distraction_count,
                 stamina_score, fatigue_score, baseline_apm, apm_degradation_count,
                 inputVars, layerVars, decayVars, blockerVars, browserVars, dbVars,
                 notifVars, checkVars, active_window, soft_reset_active, loop_pc>>

\* ------------------------------------------------------------- decay ticker
\* One iteration of _track_resilience_decay on the event loop: the sleep has
\* ended, the body runs and the next sleep begins.
track_resilience_decay ==
  /\ event_loop_idle
  /\ now >= decay_wake
  /\ decay_wake' = now + sleep_ticks
  /\ IF is_running /\ current_distracting_app # "None" /\ distracting_start_time # None
       THEN IF last_decay_check # None
              THEN IF total_seconds(now, last_decay_check) >= 60
                     THEN /\ resilience_score' =
                               Max(0, resilience_score
                                        - total_seconds(now, last_decay_check) \div 60)
                          /\ last_decay_check' = now
                     ELSE UNCHANGED <<resilience_score, last_decay_check>>
              ELSE /\ last_decay_check' = now
                   /\ UNCHANGED resilience_score
       ELSE UNCHANGED <<resilience_score, last_decay_check>>
  /\ no_reply
  /\ UNCHANGED <<extVars, now, sessionVars, current_focus_score, distraction_count, stamina_score,
                 fatigue_score, baseline_apm, apm_degradation_count, inputVars, layerVars,
                 current_distracting_app, distracting_start_time, blockerVars,
                 browserVars, dbVars, notifVars, checkVars, active_window,
                 soft_reset_active, loop_pc>>

\* The wall clock advances, up to limit, while the decay ticker sleeps: the
\* ticker runs at the instant its sleep ends.
TickSleeping(limit) ==
  /\ now < limit
  /\ now < decay_wake
  /\ now' = now + 1
  /\ no_reply
  /\ UNCHANGED <<extVars, sessionVars, scoreVars, inputVars, layerVars, decayVars, blockerVars,
                 browserVars, dbVars, notifVars, checkVars, active_window,
                 soft_reset_active, loop_pc, decay_wake>>

\* ------------------------------------------------------------ specifications
\* The detector and the session lifecycle: both monitors, the check threads
\* they spawn, and the start and stop requests.
Next ==
  \/ Tick
  \/ \E w \in {"vscode", "explorer", "instagram"} : on_window_change(w)
  \/ \E data \in {Typing, Reading} : on_input_update(data)
  \/ soft_reset_complete
  \/ check_and_auto_start_flow
  \/ auto_start_flow_guard
  \/ auto_start_flow_set
  \/ start_session_check
  \/ start_session_set
  \/ stop_session

Spec == Init /\ [][Next]_vars

\* A session driven from the API and the blocker: manual start and stop,
\* browser activity and the two blocker choices, with both monitors silent.
NextSession ==
  \/ Tick
  \/ start_session_check
  \/ start_session_set
  \/ stop_session
  \/ \E url \in Urls : record_browser_activity(url)
  \/ handle_resume
  \/ handle_break

SpecSession == Init /\ [][NextSession]_vars

\* The resilience and focus scores over manual sessions: distracting URLs
\* reported by the extension, the two blocker choices, the decay ticker and
\* the penalty endpoint.  Both monitors are silent.
NextResilience ==
  \/ TickSleeping(MaxTime)
  \/ track_resilience_decay
  \/ start_session_check
  \/ start_session_set
  \/ stop_session
  \/ record_browser_activity("twitter.com")
  \/ handle_resume
  \/ handle_break
  \/ apply_forceful_termination_penalty(15)

SpecResilience == Init /\ [][NextResilience]_vars

\* The decay record against the window monitor: one manual session in which
\* windows gain focus while the blocker is answered and the ticker runs.  The
\* input monitor is silent, so a check thread spawned while Idle never finds
\* layer 3 active.
NextWindows ==
  \/ TickSleeping(MaxTime)
  \/ track_resilience_decay
  \/ start_session_check
  \/ start_session_set
  \/ \E w \in {"vscode", "explorer", "instagram"} : on_window_change(w)
  \/ check_and_auto_start_flow
  \/ handle_resume
  \/ handle_break

SpecWindows == Init /\ [][NextWindows]_vars

\* Scenario D at the moment of the choice: a manual session started at time
\* 0 in which the extension reported a distracting URL four times, the first
\* three interventions were answered with wait and the fourth is showing.
\* The decay ticker, started with the server, is anywhere in its sleep.
InitDecay ==
  /\ now = 0
  /\ is_running = TRUE
  /\ start_time = 0
  /\ supabase \in BOOLEAN
  /\ current_session_id = create_session
  /\ local_session_id = 1
  /\ current_focus_score = 100
  /\ distraction_count = 4
  /\ resilience_score = 15
  /\ stamina_score = 30
  /\ fatigue_score = 0
  /\ baseline_apm = 0
  /\ apm_degradation_count = 0
  /\ current_apm = 0
  /\ activity_pattern = "idle"
  /\ active_streak_start = None
  /\ layer1_productive_start = None
  /\ layer2_last_distraction = None
  /\ active_window = "Unknown"
  /\ last_browser_url = "twitter.com"
  /\ pending_close_tab = FALSE
  /\ current_distracting_app = "None"
  /\ distracting_start_time = None
  /\ last_decay_check = None
  /\ blocker_active = TRUE
  /\ blocker_app_name = "twitter.com"
  /\ soft_reset_active = FALSE
  /\ notifications_suppressed = TRUE
  /\ dnd_enabled = FALSE
  /\ local_rows = 1
  /\ local_open = {1}
  /\ loop_pc = "idle"
  /\ checks_scheduled = 0
  /\ checks_passed = 0
  /\ checks_entered = 0
  /\ response = "intervention_triggered"
  /\ stop_result = NoResult
  /\ classifier_consulted = FALSE
  /\ xp_added = 0
  /\ db_failed = FALSE
  /\ decay_wake \in 1..sleep_ticks
  /\ no_query
  /\ get_or_create_user
  /\ bridge_started
  /\ no_stop_in_progress
  /\ blocker_created
  /\ watchdog_not_started
  /\ app_patterns_created
  /\ default_soft_reset

\* Scenario D from there on: the choice is made, sooner or later, and the
\* user stays where it left them for up to MaxDecayTime ticks, or stops the
\* session and starts another.
NextDecay ==
  \/ TickSleeping(MaxDecayTime)
  \/ track_resilience_decay
  \/ handle_resume
  \/ handle_break
  \/ stop_session
  \/ start_session_check
  \/ start_session_set

SpecDecay == InitDecay /\ [][NextDecay]_vars

\* What is classified and how: every kind of window, URL and search query
\* reported during one manual session, and the two blocker choices.
NextClassify ==
  \/ start_session_check
  \/ start_session_set
  \/ handle_resume
  \/ handle_break
  \/ \E w \in Windows : on_window_change(w)
  \/ check_and_auto_start_flow
  \/ \E url \in Urls : record_browser_activity(url)
  \/ \E q \in Queries : record_search_query(q)
  \/ \E api \in ApiOutcomes : record_search_query_classified(api)

SpecClassify == Init /\ [][NextClassify]_vars

\* Scenario B: from Idle a productive window stays focused and the input
\* stays active; nothing is started or stopped by hand and nothing distracts.
NextScenarioB ==
  \/ Tick
  \/ on_window_change("vscode")
  \/ on_input_update(Typing)
  \/ check_and_auto_start_flow
  \/ auto_start_flow_guard
  \/ auto_start_flow_set

SpecScenarioB == Init /\ [][NextScenarioB]_vars

\* A session with search queries: manual start and stop, queries put to the
\* classifier and its answers, and the two blocker choices.
NextQuery ==
  \/ start_session_check
  \/ start_session_set
  \/ stop_session
  \/ \E q \in Queries : record_search_query(q)
  \/ \E api \in ApiOutcomes : record_search_query_classified(api)
  \/ handle_resume
  \/ handle_break

SpecQuery == Init /\ [][NextQuery]_vars

\* ------------------------------------------------------------ blocker overlay
\* FlowBlocker as its threads run it: show is called by the window monitor
\* and by the event loop, each overlay runs Tk in a thread of its own, and no
\* lock guards the fields they share.  What the two callbacks do to the
\* scores is handle_resume and handle_break above; here they are followed
\* only as far as the blocker goes.
core_unchanged ==
  UNCHANGED <<now, sessionVars, scoreVars, inputVars, layerVars, decayVars, browserVars,
              dbVars, notifVars, checkVars, apiVars, active_window, soft_reset_active,
              loop_pc, decay_wake, queryVars, userVars, bridgeVars, configVars, stopVars,
              watchdogVars, usageVars>>

\* The overlays whose threads were started so far.
Overlays == DOMAIN flow_blocker.overlays

\* The overlay the next thread started by show will build.
next_overlay == Len(flow_blocker.overlays) + 1

\* FlowBlocker.show: nothing while active, else active, countdown_value = 3
\* and a new thread for _create_overlay.
show(app_name) ==
  /\ IF blocker_active
       THEN UNCHANGED <<blockerVars, flow_blocker>>
       ELSE /\ Len(flow_blocker.overlays) < MaxOverlays
            /\ blocker_active' = TRUE
            /\ blocker_app_name' = app_name
            /\ flow_blocker' =
                 [flow_blocker EXCEPT
                    !.countdown_value = 3,
                    !.overlays = Append(@, [stage |-> "started",
                                            shown |-> flow_blocker.tk_time,
                                            enabled |-> FALSE, quit |-> FALSE]),
                    !.timers = Append(@, NoTimer)]
  /\ core_unchanged

\* FlowBlocker._create_overlay up to root.mainloop(): self.root and the
\* button fields now name this overlay, both buttons are disabled, and
\* _update_countdown is called once.
create_overlay(o) ==
  /\ flow_blocker.overlays[o].stage = "started"
  /\ flow_blocker' =
       IF flow_blocker.countdown_value > 0
         THEN [flow_blocker EXCEPT
                 !.root = o, !.buttons = o,
                 !.countdown_value = @ - 1,
                 !.timers[o] = [on |-> o, due |-> flow_blocker.tk_time + 1],
                 !.overlays[o].stage = "mainloop"]
         ELSE [flow_blocker EXCEPT
                 !.root = o, !.buttons = o,
                 !.overlays[o].stage = "mainloop",
                 !.overlays[o].enabled = TRUE]
  /\ UNCHANGED blockerVars
  /\ core_unchanged

\* FlowBlocker._update_countdown run by a timer: c is the overlay whose
\* creation started this chain of after() calls.  The next call is
\* registered on self.root, whichever overlay that is now; with root None
\* the callback raises and the chain ends.  At 0 _enable_buttons enables
\* the buttons the fields name.
update_countdown(c) ==
  /\ flow_blocker.timers[c].on # 0
  /\ flow_blocker.overlays[flow_blocker.timers[c].on].stage = "mainloop"
  /\ flow_blocker.timers[c].due <= flow_blocker.tk_time
  /\ flow_blocker' =
       IF flow_blocker.countdown_value > 0
         THEN [flow_blocker EXCEPT
                 !.countdown_value = @ - 1,
                 !.timers[c] = IF flow_blocker.root = 0 THEN NoTimer
                               ELSE [on |-> flow_blocker.root,
                                     due |-> flow_blocker.tk_time + 1]]
         ELSE IF flow_blocker.buttons = 0
           THEN [flow_blocker EXCEPT !.timers[c] = NoTimer]
           ELSE [flow_blocker EXCEPT
                   !.timers[c] = NoTimer,
                   !.overlays[flow_blocker.buttons].enabled = TRUE]
  /\ UNCHANGED blockerVars
  /\ core_unchanged

\* FlowBlocker.hide: root.quit() on the overlay self.root names, which ends
\* its mainloop once its thread is out of any callback.
hide(ov) ==
  IF flow_blocker.root = 0 THEN ov
  ELSE IF ov[flow_blocker.root].stage = "callback"
    THEN [ov EXCEPT ![flow_blocker.root].quit = TRUE]
    ELSE [ov EXCEPT ![flow_blocker.root].stage = "ended"]

\* FlowBlocker._handle_resume, the command of overlay o's wait button:
\* on_resume, whose exception is caught, then hide.
blocker_handle_resume(o) ==
  /\ flow_blocker.overlays[o].stage = "mainloop"
  /\ flow_blocker.overlays[o].enabled
  /\ flow_blocker' = [flow_blocker EXCEPT
                        !.choice = "resume",
                        !.overlays = hide(@),
                        !.root = 0]
  /\ blocker_active' = FALSE
  /\ UNCHANGED blocker_app_name
  /\ core_unchanged

\* FlowBlocker._handle_break, the command of overlay o's proceed button, up
\* to the return of on_break: main.handle_break ends with blocker.hide().
blocker_handle_break(o) ==
  /\ flow_blocker.overlays[o].stage = "mainloop"
  /\ flow_blocker.overlays[o].enabled
  /\ flow_blocker' = [flow_blocker EXCEPT
                        !.choice = "break",
                        !.overlays = hide([@ EXCEPT ![o].stage = "callback"]),
                        !.root = 0]
  /\ blocker_active' = FALSE
  /\ UNCHANGED blocker_app_name
  /\ core_unchanged

\* FlowBlocker._handle_break from the return of on_break: the log line, then
\* self.hide() a second time, and the thread is back in its mainloop or out
\* of it.
blocker_handle_break_hide(o) ==
  /\ flow_blocker.overlays[o].stage = "callback"
  /\ LET hidden == hide(flow_blocker.overlays)
     IN flow_blocker' = [flow_blocker EXCEPT
                           !.overlays = [hidden EXCEPT ![o].stage =
                                           IF hidden[o].quit THEN "ended" ELSE "mainloop"],
                           !.root = 0]
  /\ blocker_active' = FALSE
  /\ UNCHANGED blocker_app_name
  /\ core_unchanged

\* A second passes.
TkTick ==
  /\ flow_blocker.tk_time < MaxTkTime
  /\ flow_blocker' = [flow_blocker EXCEPT !.tk_time = @ + 1]
  /\ UNCHANGED blockerVars
  /\ core_unchanged

NextBlocker ==
  \/ TkTick
  \/ \E app_name \in {"instagram", "twitter.com"} : show(app_name)
  \/ \E o \in Overlays : create_overlay(o)
  \/ \E c \in Overlays : update_countdown(c)
  \/ \E o \in Overlays : blocker_handle_resume(o)
  \/ \E o \in Overlays : blocker_handle_break(o)
  \/ \E o \in Overlays : blocker_handle_break_hide(o)

SpecBlocker == Init /\ [][NextBlocker]_vars

\* ------------------------------------------------------------------ watchdog
\* watchdog.py, a process of its own beside the server, and the user who
\* starts and kills the server.  Of the server only its process is followed.
server_unchanged ==
  UNCHANGED <<now, sessionVars, scoreVars, inputVars, layerVars, decayVars, blockerVars,
              browserVars, dbVars, notifVars, checkVars, apiVars, active_window,
              soft_reset_active, loop_pc, decay_wake, queryVars, userVars, bridgeVars,
              configVars, stopVars, overlayVars, usageVars>>

\* The Watchdog object and the main.py process, while watchdog.py runs.
wd == watchdog[1]

\* watchdog.py's __main__: Watchdog() and the first line of monitor, with a
\* main.py process running or not.  server_pid is the process running
\* main.py, 0 for none, and last_pid the last pid given out; main_process
\* is a pid, 0 for None; last_heartbeat is what the last heartbeat line
\* logged, and penalties_for_death the penalty requests posted since the
\* last "process died" line.
watchdog_main ==
  /\ watchdog = <<>>
  /\ \E pid \in {0, 1} :
       watchdog' = <<[server_pid |-> pid, last_pid |-> pid, pc |-> "find_main_process",
                      main_process |-> 0, was_healthy_before_death |-> FALSE,
                      last_heartbeat |-> "none", penalties_for_death |-> 0]>>
  /\ server_unchanged

\* The user starts main.py: a new process with a pid not used before.
start_main ==
  /\ watchdog # <<>>
  /\ wd.server_pid = 0
  /\ wd.last_pid < MaxPids
  /\ watchdog' = <<[wd EXCEPT !.server_pid = wd.last_pid + 1,
                               !.last_pid = @ + 1]>>
  /\ server_unchanged

\* The server process ends, killed or shut down.
kill_main ==
  /\ watchdog # <<>>
  /\ wd.server_pid # 0
  /\ watchdog' = <<[wd EXCEPT !.server_pid = 0]>>
  /\ server_unchanged

\* Watchdog.is_process_running
is_process_running(pid) == pid # 0 /\ wd.server_pid = pid

\* Watchdog.monitor before its loop: find_main_process once.
monitor_find ==
  /\ watchdog # <<>>
  /\ wd.pc = "find_main_process"
  /\ watchdog' =
       IF wd.server_pid # 0
         THEN <<[wd EXCEPT !.main_process = wd.server_pid, !.pc = "heartbeat"]>>
         ELSE <<[wd EXCEPT !.pc = "waiting"]>>
  /\ server_unchanged

\* Watchdog.monitor in either of its waiting loops: sleep 5 seconds, look
\* for a main.py process, leave the loop when one is found.
monitor_waiting ==
  /\ watchdog # <<>>
  /\ wd.pc = "waiting"
  /\ watchdog' =
       IF wd.server_pid # 0
         THEN <<[wd EXCEPT !.main_process = wd.server_pid, !.pc = "heartbeat"]>>
         ELSE watchdog
  /\ server_unchanged

\* The death branch of the monitoring loop, up to its 3 seconds of sleep
\* when the flag is set, and to the waiting loop otherwise.
process_died ==
  IF wd.was_healthy_before_death
    THEN <<[wd EXCEPT !.penalties_for_death = 0,
                      !.pc = "apply_resilience_penalty"]>>
    ELSE <<[wd EXCEPT !.penalties_for_death = 0,
                      !.pc = "waiting",
                      !.main_process = 0,
                      !.was_healthy_before_death = FALSE]>>

\* One pass of the monitoring loop with a failed health check leaving
\* was_healthy_before_death as it was.
monitor_heartbeat_keeps_flag ==
  /\ watchdog # <<>>
  /\ wd.pc = "heartbeat"
  /\ IF is_process_running(wd.main_process)
       THEN \E healthy \in BOOLEAN :
              watchdog' = <<[wd EXCEPT
                               !.was_healthy_before_death = (healthy \/ @),
                               !.last_heartbeat = IF healthy THEN "ok" ELSE "failed"]>>
       ELSE watchdog' = process_died
  /\ server_unchanged

\* One pass of the monitoring loop, after its 10 seconds of sleep.  With the
\* process running the health endpoint is asked: it may answer 200 or not
\* (or the process may die before it answers).  With the process gone the
\* death is logged and, if the flag is set, the watchdog sleeps 3 seconds
\* before it posts the penalty.
monitor_heartbeat ==
  /\ watchdog # <<>>
  /\ wd.pc = "heartbeat"
  /\ IF is_process_running(wd.main_process)
       THEN \E healthy \in BOOLEAN :
              watchdog' = <<[wd EXCEPT
                               !.was_healthy_before_death = healthy,
                               !.last_heartbeat = IF healthy THEN "ok" ELSE "failed"]>>
       ELSE watchdog' = process_died
  /\ server_unchanged

\* Watchdog.apply_resilience_penalty, called from the loop: one POST to the
\* penalty endpoint, whatever comes of it, then the fields are cleared and
\* the watchdog waits for a manual restart.
apply_resilience_penalty ==
  /\ watchdog # <<>>
  /\ wd.pc = "apply_resilience_penalty"
  /\ watchdog' = <<[wd EXCEPT !.penalties_for_death = @ + 1,
                               !.main_process = 0,
                               !.was_healthy_before_death = FALSE,
                               !.pc = "waiting"]>>
  /\ server_unchanged

NextWatchdog ==
  \/ watchdog_main
  \/ start_main
  \/ kill_main
  \/ monitor_find
  \/ monitor_waiting
  \/ monitor_heartbeat
  \/ apply_resilience_penalty

SpecWatchdog == Init /\ [][NextWatchdog]_vars

\* ------------------------------------------------------------ app patterns
\* LocalDatabase.log_app_usage: INSERT ... ON CONFLICT(app_name) DO UPDATE.
\* Without a row for app_name the INSERT stores the name, the duration and
\* last_used, and the three counters take their column default of 0; with a
\* row the UPDATE adds the duration and the three increments.
log_app_usage(app_name, duration_seconds, productive, broke_flow) ==
  /\ app_pattern(app_name).total_time_seconds < MaxUsageCalls * duration_seconds
  /\ app_patterns' =
       [app \in DOMAIN app_patterns \cup {app_name} |->
          IF app # app_name THEN app_patterns[app]
          ELSE IF app_name \notin DOMAIN app_patterns
            THEN [total_time_seconds |-> duration_seconds,
                  flow_breaks |-> 0, productive_sessions |-> 0,
                  distraction_sessions |-> 0]
            ELSE [total_time_seconds |->
                    app_patterns[app].total_time_seconds + duration_seconds,
                  flow_breaks |->
                    app_patterns[app].flow_breaks + (IF broke_flow THEN 1 ELSE 0),
                  productive_sessions |->
                    app_patterns[app].productive_sessions + (IF productive THEN 1 ELSE 0),
                  distraction_sessions |->
                    app_patterns[app].distraction_sessions
                      + (IF ~productive THEN 1 ELSE 0)]]
  /\ UNCHANGED <<now, sessionVars, scoreVars, inputVars, layerVars, decayVars, blockerVars,
                 browserVars, dbVars, notifVars, checkVars, apiVars, active_window,
                 soft_reset_active, loop_pc, decay_wake, queryVars, userVars, bridgeVars,
                 configVars, stopVars, overlayVars, watchdogVars>>

\* LocalDatabase.get_frequent_distractions, no app being auto-blocked
get_frequent_distractions(threshold) ==
  {app \in DOMAIN app_patterns : app_patterns[app].flow_breaks >= threshold}

\* Calls of log_app_usage as test_system.py makes them, for two apps.
NextUsage ==
  \E app_name \in Apps, productive \in BOOLEAN, broke_flow \in BOOLEAN :
    log_app_usage(app_name, 300, productive, broke_flow)

SpecUsage == Init /\ [][NextUsage]_vars

\* A stop request against the blocker's thread: manual sessions in which a
\* distracting URL brings up the overlay and the user answers it at any
\* moment, the moments inside a stop request included.
NextStop ==
  \/ Tick
  \/ start_session_check
  \/ start_session_set
  \/ stop_session_begin
  \/ stop_session_finish
  \/ record_browser_activity("twitter.com")
  \/ handle_resume
  \/ handle_break

SpecStop == Init /\ [][NextStop]_vars

\* Fatigue detection: a manual session in which the input monitor reports
\* typing, reading, slow and empty minutes, and the soft-reset thread runs.
\* The configuration names a soft_reset_seconds of 10 or leaves the default.
InitFatigue ==
  /\ FlowState_init
  /\ soft_reset_seconds \in {10, 45}

NextFatigue ==
  \/ start_session_check
  \/ start_session_set
  \/ \E data \in InputProfiles \cup {Idle} :
       apm_degradation_count < MaxDegradation /\ on_input_update(data)
  \/ soft_reset_complete

SpecFatigue == InitFatigue /\ [][NextFatigue]_vars

\* The same, with the soft-reset thread scheduled: a thread that can take
\* its next step eventually takes it.
SpecFatigueFair == InitFatigue /\ [][NextFatigue]_vars /\ WF_vars(soft_reset_complete)

\* ------------------------------------------------------------------- bridge
\* extension/bridge.py, the native messaging host between the browser
\* extension and the backend.  stdin holds what the extension has written and
\* the bridge has not read: length-prefixed messages by their type field,
\* "malformed" for bytes that do not decode as JSON and "eof" for the closed
\* pipe.  A response carries in re the position of the message it answers.
MessageTypes == {"browser_activity", "search_query", "ping"}
\* {"status": ...} of record_browser_activity and record_search_query
BackendReplies == {"ignored", "recorded", "intervention_triggered", "wait_for_break"}

\* messages and stream ends written to stdin so far
posted == Len(messages_read) + Len(stdin)
\* the extension has closed the pipe
stdin_closed ==
  \/ \E i \in 1..Len(stdin) : stdin[i].type = "eof"
  \/ \E i \in 1..Len(messages_read) : messages_read[i].type = "eof"

\* The backend and everything but the bridge stand still.
backend_unchanged ==
  UNCHANGED <<now, sessionVars, scoreVars, inputVars, layerVars, decayVars, blockerVars,
              browserVars, dbVars, notifVars, checkVars, apiVars, active_window,
              soft_reset_active, loop_pc, decay_wake, queryVars, userVars, moreVars>>

\* The extension posts a message, or bytes that are no message.
postMessage(type) ==
  /\ posted < MaxMessages
  /\ ~stdin_closed
  /\ stdin' = Append(stdin, [type |-> type, n |-> posted + 1])
  /\ UNCHANGED <<bridge_pc, stdout, message, bridge_response, messages_read>>
  /\ backend_unchanged

\* The extension disconnects.
disconnect ==
  /\ ~stdin_closed
  /\ stdin' = Append(stdin, [type |-> "eof", n |-> posted + 1])
  /\ UNCHANGED <<bridge_pc, stdout, message, bridge_response, messages_read>>
  /\ backend_unchanged

\* main: message = read_message(); None, for the closed pipe and for any
\* exception while reading or decoding, ends the loop.
read_message ==
  /\ bridge_pc = "read_message"
  /\ stdin # <<>>
  /\ stdin' = Tail(stdin)
  /\ messages_read' = Append(messages_read, Head(stdin))
  /\ IF Head(stdin).type \in {"eof", "malformed"}
       THEN /\ message' = NoMessage
            /\ bridge_pc' = "exited"
       ELSE /\ message' = Head(stdin)
            /\ bridge_pc' = "forward_to_fastapi"
  /\ UNCHANGED <<stdout, bridge_response>>
  /\ backend_unchanged

\* forward_to_fastapi(message) when the POST comes to reply: a status of the
\* backend, or "unreachable" for any exception of the request
forward_to_fastapi(m, reply) ==
  IF m.type \notin {"browser_activity", "search_query"}
    THEN [status |-> "error", re |-> m.n]
    ELSE IF reply = "unreachable"
      THEN [status |-> "error", re |-> m.n]
      ELSE [status |-> reply, re |-> m.n]

\* main: response = forward_to_fastapi(message)
bridge_forward(reply) ==
  /\ bridge_pc = "forward_to_fastapi"
  /\ bridge_response' = forward_to_fastapi(message, reply)
  /\ bridge_pc' = "send_message"
  /\ UNCHANGED <<stdin, stdout, message, messages_read>>
  /\ backend_unchanged

\* send_message that writes nothing for an error status.
send_message_skips_errors ==
  /\ bridge_pc = "send_message"
  /\ stdout' = IF bridge_response.status = "error" THEN stdout
               ELSE Append(stdout, bridge_response)
  /\ bridge_pc' = "read_message"
  /\ UNCHANGED <<stdin, message, bridge_response, messages_read>>
  /\ backend_unchanged

\* main: send_message(response), the length prefix and the JSON text written
\* and flushed; the loop goes back to read_message.  The extension is taken
\* to keep its end of stdout open for as long as it posts messages.
send_message ==
  /\ bridge_pc = "send_message"
  /\ stdout' = Append(stdout, bridge_response)
  /\ bridge_pc' = "read_message"
  /\ UNCHANGED <<stdin, message, bridge_response, messages_read>>
  /\ backend_unchanged

\* The bridge and the extension, with the backend answering anything or not
\* at all.
NextBridge ==
  \/ \E type \in MessageTypes \cup {"malformed"} : postMessage(type)
  \/ disconnect
  \/ read_message
  \/ \E reply \in BackendReplies \cup {"unreachable"} : bridge_forward(reply)
  \/ send_message

SpecBridge == Init /\ [][NextBridge]_vars

\* ------------------------------------------------------------------- claims

\* C1: concurrent start requests arriving while Idle create exactly one
\* session: at no time are there two sessions that were started and not ended.
C1_OneSessionPerIdlePeriod == Cardinality(local_open) <= 1

\* C2: an auto-start check lets its thread go on to start a session only if,
\* at the instant of the check, the state is Idle and layers 1, 2 and 3 all
\* hold; a check that finds one of them false changes no session state and
\* starts nothing; and only a thread whose check succeeded auto-starts.
C2_AutoStartNeedsAllLayers ==
  [][ LET threshold == flow_threshold_minutes * 60
          age(t) == (now - t) * SecondsPerTick
          layer1 == layer1_productive_start # None
                      /\ age(layer1_productive_start) >= threshold
          layer2 == layer2_last_distraction = None
                      \/ age(layer2_last_distraction) >= threshold
          layer3 == active_streak_start # None /\ age(active_streak_start) >= threshold
          check_ran == checks_scheduled' < checks_scheduled
      IN /\ (check_ran /\ checks_passed' > checks_passed)
              => (~is_running /\ layer1 /\ layer2 /\ layer3)
         /\ (check_ran /\ ~(layer1 /\ layer2 /\ layer3))
              => /\ checks_passed' = checks_passed
                 /\ UNCHANGED <<sessionVars, scoreVars, layerVars, decayVars, dbVars,
                                notifVars, checks_entered>>
         /\ (checks_entered' > checks_entered) => (checks_passed' < checks_passed)
         /\ (dnd_enabled' /\ ~dnd_enabled) => (checks_entered' < checks_entered)
    ]_vars

\* C2 witness: a session has just been auto-started.
C2_AutoStarted ==
  is_running /\ dnd_enabled /\ start_time = now /\ local_rows = 1

\* C3: start_session while Running answers already_running and stop_session
\* while Idle answers not_running, and neither changes start time, session
\* ids, scores, distraction count, layer timers or decay record; is_running
\* changes only on a successful start (manual or automatic) or stop.
C3_DoubleInvocationIsNoOp ==
  [][ LET session_state == <<sessionVars, scoreVars, layerVars, decayVars>>
      IN /\ (start_session_check /\ is_running)
              => (response' = "already_running" /\ UNCHANGED session_state)
         /\ (stop_session /\ ~is_running)
              => (response' = "not_running" /\ UNCHANGED session_state)
         /\ (response' = "already_running") => (is_running /\ UNCHANGED session_state)
         /\ (response' = "not_running") => (~is_running /\ UNCHANGED session_state)
         /\ (is_running' # is_running)
              => (response' \in {"started", "stopped"} \/ checks_entered' < checks_entered)
    ]_vars

\* C3 witness: a start request was answered already_running in a session that
\* has earned scores and holds a decay record.
C3_StartWhileRunning ==
  /\ response = "already_running"
  /\ stamina_score > 0
  /\ distraction_count > 0
  /\ current_distracting_app # "None"

\* C4: the Layer-1 timer is non-null if and only if the most recently
\* classified window was productive and no session is running.
C4_Layer1IffProductiveAndIdle ==
  (layer1_productive_start # None) <=> (is_productive(active_window) /\ ~is_running)

\* C5: after every successful start, manual or automatic, distraction count,
\* resilience, stamina, fatigue and baseline APM are 0 and the three layer
\* timers are null.
C5_StartResetsScoresAndTimers ==
  [][ (response' = "started" \/ checks_entered' < checks_entered)
        => /\ distraction_count' = 0 /\ resilience_score' = 0 /\ stamina_score' = 0
           /\ fatigue_score' = 0 /\ baseline_apm' = 0
           /\ layer1_productive_start' = None
           /\ layer2_last_distraction' = None
           /\ active_streak_start' = None
    ]_vars

\* C6: when stop_session has answered stopped, the three layer timers are null.
C6_TimersNullAfterStop ==
  response = "stopped"
    => /\ layer1_productive_start = None
       /\ layer2_last_distraction = None
       /\ active_streak_start = None

\* C7: an input update leaves the Layer-3 timer non-null only if it reported
\* the active pattern and no session was running.
C7_StreakOnlyWhenActiveAndIdle ==
  [][ \A data \in InputProfiles :
        on_input_update(data)
          => (active_streak_start' # None
                => (data.keyboard_events > 30 /\ ~is_running))
    ]_vars

\* C8: a distracting window detected while Running sets the Layer-2 timestamp
\* to the time of the event and is routed to trigger_intervention.
C8_DistractionStampsLayer2 ==
  [][ \A w \in Windows :
        (is_running /\ is_distraction(w) /\ on_window_change(w))
          => (layer2_last_distraction' = now /\ distraction_count' = distraction_count + 1)
    ]_vars

\* C9: in scenario B the session is auto-started exactly once over the whole
\* run: never more than one session is created.
C9_AutoStartedAtMostOnce == local_rows <= 1

\* C10: when stop_session answers stopped, xp_earned is
\* floor(duration_seconds / 60) * 5 + resilience + stamina +
\* floor(max(0, focus) / 10), the penalty is 0 whatever the distraction
\* count, and the breakdown entries add up to xp_earned; scenario E gives 183.
C10_XpFormula ==
  response = "stopped"
    => LET duration_seconds == (now - start_time) * SecondsPerTick
           focus == IF current_focus_score > 0 THEN current_focus_score ELSE 0
       IN /\ stop_result.xp_earned =
               (duration_seconds \div 60) * 5 + resilience_score + stamina_score
                 + (focus \div 10)
          /\ stop_result.penalty = 0
          /\ stop_result.xp_earned =
               stop_result.base + stop_result.resilience + stop_result.stamina
                 + stop_result.focus - stop_result.penalty
          /\ xp_breakdown(1500, 20, 30, 85, 0).xp_earned = 183

\* C10 witness: a session with distractions, earned scores and a duration
\* that is no whole number of minutes has been stopped.
C10_StoppedWithScores ==
  /\ response = "stopped"
  /\ distraction_count > 0
  /\ stop_result.resilience > 0
  /\ stop_result.base > 0
  /\ stop_result.duration % 60 # 0

\* C11: in every reachable state, whatever wait and proceed choices, decay
\* ticks, penalties and session starts and stops came before, the resilience
\* score is at least 0 and the focus score lies within 0..100.
C11_ScoresClamped ==
  /\ resilience_score >= 0
  /\ current_focus_score >= 0
  /\ current_focus_score <= 100

\* C11 witness: a penalty has just been applied to a session that saw a wait
\* and a proceed choice, and the resilience score sits on its floor.
C11_PenaltyOnFloor ==
  /\ response = "penalty_applied"
  /\ resilience_score = 0
  /\ stamina_score > 0
  /\ current_focus_score < 100

\* C12: a wait choice adds exactly 5 to resilience and 10 to stamina, sets
\* focus to min(100, focus + 5), removes the decay record (no distracting app
\* and no start time are tracked any more) and leaves the blocker hidden.
C12_WaitChoice ==
  [][ handle_resume
        => /\ resilience_score' = resilience_score + 5
           /\ stamina_score' = stamina_score + 10
           /\ current_focus_score' =
                IF current_focus_score + 5 > 100 THEN 100 ELSE current_focus_score + 5
           /\ current_distracting_app' = "None"
           /\ distracting_start_time' = None
           /\ ~blocker_active'
    ]_vars

\* C12 witness: a wait choice has removed the record left by an earlier
\* proceed choice of the same session.
C12_WaitedAfterProceed ==
  /\ is_running
  /\ ~blocker_active
  /\ stamina_score = 10
  /\ resilience_score = 5
  /\ current_focus_score = 90
  /\ current_distracting_app = "None"
  /\ last_decay_check # None

\* C13: a proceed choice sets resilience to max(0, resilience - 10) and focus
\* to max(0, focus - 15) at once, creates a decay record whose start and
\* last-check timestamps are the time of the choice, and hides the blocker.
C13_ProceedChoice ==
  [][ handle_break
        => /\ resilience_score' =
                IF resilience_score - 10 < 0 THEN 0 ELSE resilience_score - 10
           /\ current_focus_score' =
                IF current_focus_score - 15 < 0 THEN 0 ELSE current_focus_score - 15
           /\ current_distracting_app' # "None"
           /\ distracting_start_time' = now
           /\ last_decay_check' = now
           /\ ~blocker_active'
    ]_vars

\* C13 witness: a proceed choice made after the clock moved, in a session
\* that had earned 5 resilience, has just created its record.
C13_ProceededAfterWait ==
  /\ is_running
  /\ ~blocker_active
  /\ now > 0
  /\ distracting_start_time = now
  /\ last_decay_check = now
  /\ stamina_score = 10
  /\ resilience_score = 0
  /\ current_focus_score = 85

\* C14: in scenario D (resilience 15 before the proceed choice, the user
\* staying in the distracting content), three minutes after the choice the
\* decay ticks have taken exactly 3 on top of the 10 of the choice, whatever
\* the phase of the ticker: resilience is 15 - 13.
C14_ThreeMinutesDropThirteen ==
  ( /\ is_running
    /\ current_distracting_app # "None"
    /\ stamina_score = 30
    /\ total_seconds(now, distracting_start_time) = 180
    /\ decay_wake > now )
    => resilience_score = 15 - 13

\* C15: while Running with a decay record, a focus change to a productive
\* window clears the whole record (distracting app, start time and last-check
\* time), and a decay tick that finds no record leaves resilience alone.
C15_ProductiveWindowClearsRecord ==
  [][ /\ \A w \in Windows :
           ( /\ is_running
             /\ current_distracting_app # "None"
             /\ is_productive(w) /\ ~is_blocked(w)
             /\ on_window_change(w) )
             => /\ current_distracting_app' = "None"
                /\ distracting_start_time' = None
                /\ last_decay_check' = None
      /\ (track_resilience_decay /\ current_distracting_app = "None")
           => resilience_score' = resilience_score
      /\ (is_running /\ last_decay_check = None /\ last_decay_check' = None)
           => resilience_score' >= resilience_score
    ]_vars

\* C15 witness: in a session that saw a wait choice and then a proceed
\* choice, the productive window has the focus, the record is gone and the
\* ticker has run since the server started.
C15_RecordClearedByProductiveWindow ==
  /\ is_running
  /\ active_window = "vscode"
  /\ current_focus_score = 85
  /\ stamina_score = 10
  /\ current_distracting_app = "None"
  /\ distracting_start_time = None
  /\ last_decay_check = None
  /\ decay_wake > sleep_ticks

\* C16: a decay record exists only while a session is Running: while Idle no
\* distracting app and no start time are tracked.
C16_NoRecordWhileIdle ==
  ~is_running => (current_distracting_app = "None" /\ distracting_start_time = None)

\* C17: the record created by a proceed choice names what triggered the
\* intervention, the app or URL the blocker is showing.
C17_RecordNamesTrigger ==
  [][ handle_break => current_distracting_app' = blocker_app_name ]_vars

\* C18: while the blocker is active a trigger changes nothing: the
\* distraction count does not go up and the blocker keeps its app name.
C18_TriggerWhileActiveIsNoOp ==
  [][ (blocker_active /\ blocker_active')
        => /\ distraction_count' <= distraction_count
           /\ blocker_app_name' = blocker_app_name
    ]_vars

\* C19: a wait choice adds the resume bonus of 10 to the lifetime XP stored
\* for the user, at the time of the choice.
C19_WaitGrantsResumeBonus ==
  [][ (handle_resume /\ supabase) => xp_added' = 10 ]_vars

\* C20: while Running a window of a blocked app always triggers an
\* intervention and nothing else of the handler applies to it, whatever its
\* title matches; and the classifier is consulted only by a search query
\* that is not empty and matched no keyword, never for a window or a URL.
C20_BlockedFirstClassifierLast ==
  [][ /\ \A w \in {"steam", "discord"} :
           (is_running /\ on_window_change(w))
             => /\ distraction_count' = distraction_count + 1
                /\ blocker_active'
                /\ UNCHANGED <<current_distracting_app, distracting_start_time,
                               last_decay_check>>
      /\ \A w \in {"instagram"} :
           (is_running /\ on_window_change(w))
             => distraction_count' = distraction_count + 1
      /\ classifier_consulted'
           => /\ is_running
              /\ \E q \in {"python asyncio", "celebrity gossip", "twitch streams"} :
                    record_search_query(q)
              /\ UNCHANGED <<active_window, last_browser_url>>
    ]_vars

\* C20 witness: with a decay record in place for another window, the
\* window of a blocked app whose title looks productive gained the focus and
\* the blocker shows it, and a search query that matched no keyword has just
\* been put to the classifier.
C20_BlockedWindowAndClassifiedQuery ==
  /\ is_running
  /\ active_window = "discord"
  /\ blocker_active
  /\ blocker_app_name = "discord"
  /\ current_distracting_app = "instagram"
  /\ classifier_consulted
  /\ query_in_flight = "python asyncio"

\* C22: record_browser_activity always answers ignored, recorded or
\* intervention_triggered: ignored exactly when no session is running,
\* intervention_triggered exactly when a session is running and the URL
\* matches a distracting keyword, and recorded otherwise.
C22_BrowserStatusSet ==
  [][ \A url \in Urls :
        record_browser_activity(url) =>
          /\ response' \in {"ignored", "recorded", "intervention_triggered"}
          /\ (response' = "ignored") <=> ~is_running
          /\ (response' = "intervention_triggered")
               <=> (is_running /\ is_distracting_url(url)) ]_vars

\* C23: apply_forceful_termination_penalty changes the resilience score only
\* if a session is running; while Idle it leaves the resilience score and the
\* rest of the session state as they were.
C23_PenaltyIgnoredWhileIdle ==
  [][ (apply_forceful_termination_penalty(15) /\ ~is_running)
        => UNCHANGED <<sessionVars, scoreVars>> ]_vars

\* C24: a stop_session that ends a session, however it was started, leaves
\* nothing suppressed: neither the per-application notification settings
\* nor the do-not-disturb setting made at the start remain in effect.
C24_StopRestoresNotifications ==
  [][ (stop_session /\ response' = "stopped")
        => (~notifications_suppressed' /\ ~dnd_enabled') ]_vars

\* C21: when the classifier's request for a search query raises, times out
\* or is answered with something that is not JSON, the query is recorded:
\* no intervention is triggered and the distraction count stays as it was.
C21_ClassifierFailureFailsOpen ==
  [][ \A api \in {"malformed", "raises"} :
        record_search_query_classified(api)
          => /\ response' = "recorded"
             /\ UNCHANGED <<distraction_count, blockerVars>> ]_vars

\* C25: after a stop_session that returns xp_earned, get_status reports a
\* lifetime XP higher by exactly xp_earned than before the stop.
C25_StatusXpRisesByEarned ==
  [][ (stop_session /\ response' = "stopped")
        => get_status_xp' = get_status_xp + stop_result'.xp_earned ]_vars

\* C26: when the stop_session of the first session since the user was
\* loaded, the user having more than three sessions and a cognitive
\* profile, stores XP that takes floor(total_xp / 100) + 1 above the level
\* before the stop, the stored profile becomes the old one with +1 focus,
\* +1 stamina, +1 resilience and +0.5 consistency, each capped at 100.
C26_LevelUpIncrementsProfile ==
  [][ ( /\ stop_session
        /\ response' = "stopped"
        /\ supabase /\ ~db_failed'
        /\ local_rows = 1
        /\ get_user_status(TRUE) > 3
        /\ users_row.cognitive_profile.set
        /\ ((user.total_xp + xp_added') \div 100) + 1 > user.level )
        => users_row'.cognitive_profile = level_up_profile(users_row.cognitive_profile)
    ]_vars

\* C27: a start or stop request during which the remote database fails is
\* still answered started or stopped, and sets the running flag, the start
\* time, the scores and the XP breakdown as a request that reaches it does.
C27_PersistenceFailureKeepsInMemory ==
  [][ /\ (start_session_set /\ db_failed')
           => /\ response' = "started"
              /\ is_running'
              /\ start_time' = now
              /\ distraction_count' = 0 /\ resilience_score' = 0
              /\ stamina_score' = 0 /\ fatigue_score' = 0 /\ baseline_apm' = 0
      /\ (stop_session /\ is_running /\ db_failed')
           => /\ response' = "stopped"
              /\ ~is_running'
              /\ stop_result' = xp_breakdown(total_seconds(now, start_time),
                                             resilience_score, stamina_score,
                                             current_focus_score, distraction_count)
              /\ UNCHANGED <<start_time, scoreVars>>
    ]_vars

\* C27 witness: a session with a bonus to store was stopped while the remote
\* database failed.
C27_StoppedWhileDatabaseFailed ==
  /\ response = "stopped"
  /\ db_failed
  /\ stop_result.xp_earned > 10
  /\ ~is_running

\* C28: the answer of the classifier triggers an intervention only in the
\* session that was running when the query was received: that session is
\* still the current one and has not been stopped.
C28_ResultAppliedToRunningSession ==
  [][ \A api \in ApiOutcomes :
        ( /\ record_search_query_classified(api)
          /\ \/ response' = "intervention_triggered"
             \/ distraction_count' # distraction_count
             \/ blocker_active' # blocker_active )
          => /\ is_running
             /\ query_session = local_session_id
             /\ query_session \in local_open ]_vars

\* C28 witness: after a first session was stopped, a query of the second
\* one that matches no keyword was classified as distracting and the blocker
\* shows it.
C28_SecondSessionQueryClassified ==
  /\ is_running
  /\ local_session_id = 2
  /\ local_open = {2}
  /\ response = "intervention_triggered"
  /\ blocker_active
  /\ blocker_app_name \in {"celebrity gossip", "python asyncio"}

\* C29: from Idle a start request is answered started, a harmless URL
\* reported next is answered recorded, and a stop request after that is
\* answered stopped and leaves no session running.
C29_StartReportStop ==
  [][ /\ (start_session_check /\ ~is_running) => loop_pc' = "start_session"
      /\ start_session_set => response' = "started"
      /\ (record_browser_activity("docs.python.org") /\ response = "started")
           => response' = "recorded"
      /\ (stop_session /\ response = "recorded")
           => (response' = "stopped" /\ ~is_running')
    ]_vars

\* C30: every well-formed message the bridge has read and dealt with has
\* exactly one response on stdout, in the order of reading, with an error
\* status for an unknown type; and the bridge leaves its loop only on the
\* closed pipe or on bytes that are no message.
C30_OneResponsePerMessageInOrder ==
  LET well_formed(m) == m.type \in MessageTypes
      handled == IF bridge_pc \in {"forward_to_fastapi", "send_message"}
                   THEN SubSeq(messages_read, 1, Len(messages_read) - 1)
                   ELSE messages_read
      answered == SelectSeq(handled, well_formed)
  IN /\ Len(stdout) = Len(answered)
     /\ \A i \in 1..Len(stdout) :
          /\ stdout[i].re = answered[i].n
          /\ answered[i].type = "ping" => stdout[i].status = "error"
     /\ bridge_pc = "exited"
          => ~well_formed(messages_read[Len(messages_read)])
     /\ bridge_pc = "send_message"
          => /\ bridge_response.re = message.n
             /\ message = messages_read[Len(messages_read)]

\* C30 witness: three messages were read and answered in turn, the one of
\* unknown type with an error status, and the bridge is reading again.
C30_ThreeMessagesAnswered ==
  /\ bridge_pc = "read_message"
  /\ Len(stdout) = 3
  /\ stdout[1].status = "recorded"
  /\ stdout[2].status = "error"
  /\ messages_read[2].type = "ping"
  /\ stdout[3].status = "error"
  /\ messages_read[3].type = "search_query"
\* C32: with a baseline APM captured, a fatigue update during a running
\* session increments the degradation counter when the current APM is below
\* half the baseline, an APM of 0 included, and otherwise decrements it, never
\* below 0.
C32_DegradationCounter ==
  [][\A data \in InputProfiles \cup {Idle} :
       on_input_update(data) /\ is_running /\ baseline_apm > 0
         => apm_degradation_count' =
              IF 2 * data.apm < baseline_apm
                THEN apm_degradation_count + 1
                ELSE Max(0, apm_degradation_count - 1)]_vars

C34_CloseOnlyOriginatingTab ==
  [][\A url \in Urls :
       record_browser_activity(url) /\ response' = "wait_for_break"
         => stamina_score > 0 /\ blocker_app_name \in Urls]_vars

\* C38: once SoftReset.trigger has set active, the reset sequence ends and
\* sets active back to false, for every configured duration.
C38_SoftResetEnds == soft_reset_active ~> ~soft_reset_active

\* C39: a blocker choice delivered while no session is running changes
\* nothing that the next session starts with: the focus score, the decay
\* record and the pending close-tab flag stay as the stopped session left
\* them (no start resets any of the three).
C39_ChoiceAfterStopHasNoEffect ==
  [][(handle_resume \/ handle_break) /\ ~is_running
       => /\ current_focus_score' = current_focus_score
          /\ pending_close_tab' = pending_close_tab
          /\ UNCHANGED decayVars]_vars

\* C37: a stop request answered stopped ends a running session, adds to the
\* lifetime total the XP it answers and nothing else, and that XP is the XP
\* of the scores written to the session's row.
C37_AwardedXpMatchesPersistedScores ==
  [][stop_session_finish =>
       /\ is_running /\ ~is_running'
       /\ xp_added' \in {0, stop_result'.xp_earned}
       /\ local_update_session.xp_total =
            xp_breakdown(local_update_session.duration_seconds,
                         local_update_session.resilience_score,
                         local_update_session.stamina_score,
                         local_update_session.focus_score,
                         local_update_session.distraction_count).xp_earned]_vars

\* C31: a choice is delivered from an overlay no sooner than 3 seconds after
\* the show that brought it up, and every show that finds the blocker
\* inactive sets the countdown to 3 and starts an overlay with both buttons
\* disabled.
C31_CountdownBeforeChoice ==
  [][/\ \A o \in Overlays :
          (blocker_handle_resume(o) \/ blocker_handle_break(o))
            => flow_blocker.tk_time >= flow_blocker.overlays[o].shown + 3
      /\ \A app_name \in {"instagram", "twitter.com"} :
          (show(app_name) /\ ~blocker_active)
            => /\ flow_blocker'.countdown_value = 3
               /\ flow_blocker'.overlays[next_overlay].stage = "started"
               /\ ~flow_blocker'.overlays[next_overlay].enabled]_vars

\* C35: the watchdog posts the penalty at most once for a death it detects,
\* and only if its most recent heartbeat found the server healthy; no step of
\* the watchdog starts a server process, and it leaves its wait only for a
\* process that is running.
C35_PenaltyOncePerHealthyDeath ==
  /\ [](watchdog # <<>> => wd.penalties_for_death <= 1)
  /\ [][/\ apply_resilience_penalty => wd.last_heartbeat = "ok"
        /\ (monitor_find \/ monitor_waiting \/ monitor_heartbeat \/ apply_resilience_penalty)
             => /\ watchdog'[1].server_pid = wd.server_pid
                /\ watchdog'[1].last_pid = wd.last_pid
        /\ (watchdog # <<>> /\ wd.pc = "waiting" /\ watchdog'[1].pc # "waiting")
             => /\ wd.server_pid # 0
                /\ watchdog'[1].main_process = wd.server_pid]_vars

\* The penalty posted for the death of a restarted server whose last
\* heartbeat was healthy.
C35_PenaltyPosted ==
  /\ watchdog # <<>>
  /\ wd.penalties_for_death = 1 /\ wd.pc = "waiting"
  /\ wd.last_heartbeat = "ok" /\ wd.server_pid = 0
  /\ wd.last_pid = 2

\* C36: every call of log_app_usage, the one that creates the app's row
\* included, adds 1 to flow_breaks when broke_flow is set, 1 to
\* productive_sessions when is_productive is set and 1 to
\* distraction_sessions when it is not, so that n calls with broke_flow set
\* and no others leave flow_breaks at n.
C36_CountersCountEveryCall ==
  [][\A app_name \in Apps, productive \in BOOLEAN, broke_flow \in BOOLEAN :
       log_app_usage(app_name, 300, productive, broke_flow)
         => /\ app_patterns'[app_name].flow_breaks =
                 app_pattern(app_name).flow_breaks + (IF broke_flow THEN 1 ELSE 0)
            /\ app_patterns'[app_name].productive_sessions =
                 app_pattern(app_name).productive_sessions
                   + (IF productive THEN 1 ELSE 0)
            /\ app_patterns'[app_name].distraction_sessions =
                 app_pattern(app_name).distraction_sessions
                   + (IF ~productive THEN 1 ELSE 0)]_vars

====
